---- MODULE Spec2Model ----
(***************************************************************************)
(* A model of src/banner_generator.py: the BannerGenerator session object, *)
(* its execute() workflow, the text / image / edit services it calls, and  *)
(* the two places it writes on disk (images/temp/temp.jpg and the output   *)
(* directory).  Every external call and every file operation is one step,  *)
(* so that a fault can strike at any of them and two sessions can          *)
(* interleave on the shared temporary file.                                *)
(*                                                                         *)
(* Texts (topics, prompts, replies, paths) are sequences of strings that   *)
(* are concatenated as the f-strings of the source concatenate them: a     *)
(* fixed piece of a prompt template is one element, an opaque reply is a   *)
(* few elements, and where the code looks at single characters (the [9:-5] *)
(* slice, the output filename) every element is one character.            *)
(***************************************************************************)
EXTENDS Integers, Sequences, FiniteSets, TLC

(***************************************************************************)
(* Bounds of the model.                                                    *)
(***************************************************************************)
\* how many times the caller invokes execute() on one session
MaxRuns == 2
\* longest run of free characters before and after the filler of a topic
MaxAffix == 1
\* how far below the filename cap the filler lengths of a topic start
FillSlack == 2
\* longest reply of the text service to the consolidation prompt
MaxReplyLen == 16

(***************************************************************************)
(* Constants of the program.                                               *)
(***************************************************************************)
\* output_filename[:50]
NameCap == 50
\* .text[9:-5]
SliceFrom == 9
SliceTo == -5

Sessions == {"A", "B"}

\* Optional[Literal["1:1", "9:16", "16:9", "4:3", "3:4"]]; "" stands for None
AspectRatios == {"1:1", "9:16", "16:9", "4:3", "3:4"}
NoAspect == ""
\* the keyword argument is absent from the request
Omitted == "<omitted>"

\* the value None of the fields text_v0 .. text_v3, and of a path not returned
NoneText == <<"<None>">>
\* the value None of images
NoneImages == <<"<None>">>
\* the value None of img_response_v1 .. v3, and the absent temporary file
NoImage == <<>>

(***************************************************************************)
(* Characters.                                                             *)
(***************************************************************************)
Letters ==
    {"a","b","c","d","e","f","g","h","i","j","k","l","m","n","o","p","q","r",
     "s","t","u","v","w","x","y","z","A","B","C","D","E","F","G","H","I","J",
     "K","L","M","N","O","P","Q","R","S","T","U","V","W","X","Y","Z"}
Digits == {"0","1","2","3","4","5","6","7","8","9"}

\* str.isalnum() of one character
IsAlnum(e) == e \in Letters \cup Digits

\* the characters str.strip() removes
IsSpace(e) == e \in {" ", "\t", "\n", "\r"}

(***************************************************************************)
(* Python's string operations.                                             *)
(***************************************************************************)
Min(a, b) == IF a < b THEN a ELSE b
Max(a, b) == IF a > b THEN a ELSE b

\* an index of a slice, clamped to 0 .. n as Python clamps it
SliceIndex(i, n) == IF i < 0 THEN Max(i + n, 0) ELSE Min(i, n)

\* s[lo:hi]
PySlice(s, lo, hi) ==
    LET a == SliceIndex(lo, Len(s))
        b == SliceIndex(hi, Len(s))
    IN  IF a >= b THEN <<>> ELSE SubSeq(s, a + 1, b)

RECURSIVE LStrip(_)
LStrip(s) == IF s # <<>> /\ IsSpace(Head(s)) THEN LStrip(Tail(s)) ELSE s

RECURSIVE RStrip(_)
RStrip(s) ==
    IF s # <<>> /\ IsSpace(s[Len(s)]) THEN RStrip(SubSeq(s, 1, Len(s) - 1)) ELSE s

\* s.strip()
Strip(s) == RStrip(LStrip(s))

\* s.replace(' ', '_')
ReplaceSpaces(s) == [i \in 1..Len(s) |-> IF s[i] = " " THEN "_" ELSE s[i]]

\* ''.join(e for e in topic if e.isalnum() or e == ' ')
KeepAlnumAndSpaces(t) == SelectSeq(t, LAMBDA e : IsAlnum(e) \/ e = " ")

(***************************************************************************)
(* The output path of fix_image.                                           *)
(***************************************************************************)
JpgExt == <<".", "j", "p", "g">>
OutputDir == <<"i","m","a","g","e","s","/","o","u","t","p","u","t">>

\* a variant of OutputFilename that forgets the [:50] cap
OutputFilenameUncapped(t) ==
    ReplaceSpaces(Strip(KeepAlnumAndSpaces(t))) \o JpgExt

\* output_filename, lines 194-195
OutputFilename(t) ==
    ReplaceSpaces(Strip(PySlice(KeepAlnumAndSpaces(t), 0, NameCap))) \o JpgExt

\* os.path.join('images/output', output_filename): the filename never starts
\* with a separator, so the two are joined by one
OutputPath(t) == OutputDir \o <<"/">> \o OutputFilename(t)

(***************************************************************************)
(* The prompts, built as the f-strings of the source build them.  A fixed  *)
(* piece of a template is one element, named after what it says.           *)
(***************************************************************************)
ExtractionPrompt(t) ==
    <<"Deep analyze text [...] perspective: ">> \o t
        \o <<" Extract the following information: [0..9]">>

DescribePrompt ==
    <<"Examine the set of images to extract information about the product (name, logo) in less than 80 words.">>

ConsolidationHead ==
    "Respond concisely and summarize in Python dictionary format only this: "
InsightsMark == " Product insights: "

\* out_text of line 99
ConsolidationPrompt(v0) == <<ConsolidationHead>> \o v0

\* out_text += ' Product insights: ' + image_info, line 102
WithInsights(out_text, image_info) == out_text \o <<InsightsMark>> \o image_info

CleanupHead ==
    "Respond concisely by scrapping all unavailable information in Python dictionary format only this: "
CleanupPrompt(v1) == <<CleanupHead>> \o v1

SynthesisPrompt(v2) ==
    <<"Task: Fill in the values in this json: ">> \o v2 \o <<" Guidelines: [1..9]">>

GenerationPrompt(v3) ==
    <<"Realistic, [...] excellent image quality ad capturing every detail in json:">> \o v3

CritiquePrompt(v3) ==
    <<"Be direct. Quality check the banner out of 10 on: [1..4] ONLY USE INFORMATION FROM ">>
        \o v3 \o <<". [...] Precisely point out errors [...] where score is below 8. [...]">>

EditPrompt(lags) ==
    <<"Realistic, [...] excellent image quality ad by: ">> \o lags
ReEditPrompt(lags) ==
    <<"Realistic, [...] excellent image quality ad edit by: ">> \o lags

\* edit_mode and mask_mode of both edit_image calls
EditModes == <<"inpainting-insert", "background">>
NoModes == <<>>

(***************************************************************************)
(* What the services may answer.  The model fixes nothing about a reply    *)
(* but the set it is drawn from.                                           *)
(***************************************************************************)
ExtractReplies == {<<"0. Product [...] 9. Background theme">>}
DescribeReplies == {<<"Ghee", " jar, logo top left">>, <<"no logo">>}
CleanupReplies == {<<"{cleaned}">>}
SynthesisReplies == {<<"{descriptor}">>}
CritiqueReplies == {<<"offer missing: add it">>}

\* a markdown code fence (written ~~~) around a dictionary: 9 characters, then 5
FenceOpen == <<"~","~","~","p","y","t","h","o","n">>
FenceClose == <<"\n","~","~","~","\n">>
Fenced(body) == FenceOpen \o body \o FenceClose

ReplyChars == <<"{", "k", ":", "v", "}">>
\* a reply of n characters in which neighbours differ
PatternReply(n, k) == [i \in 1..n |-> ReplyChars[((i * k) % Len(ReplyChars)) + 1]]

\* replies to the consolidation prompt: fenced, bare, and too short
FewReplies == {Fenced(<<"\n", "{", "}">>), <<"{", "}">>}
ManyReplies ==
    {PatternReply(n, k) : n \in 0..MaxReplyLen, k \in 1..2}
        \cup {Fenced(b) : b \in {<<>>, <<"{", "}">>, <<"\n", "{", "k", "}">>}}

(***************************************************************************)
(* Topics and the other arguments of the constructor.                      *)
(***************************************************************************)
ExampleTopic ==
    <<"D","i","w","a","l","i"," ","S","a","l","e"," ","o","n"," ",
      "P","r","e","m","i","u","m"," ","G","h","e","e"," ","1","k","g"," ",
      "J","a","r">>

FewTopics == {ExampleTopic, <<"5","0","%"," ","O","f","f","!"," ">>}

TopicChars == {"a", " ", "!"}
Affixes == UNION {[1..n -> TopicChars] : n \in 0..MaxAffix}
Filler(c, n) == [i \in 1..n |-> c]
FillLens == {0} \cup ((NameCap - FillSlack)..(NameCap + 1))
\* topics around the cap: free characters, a long filler, free characters
ManyTopics ==
    {pre \o Filler(c, n) \o suf :
        pre \in Affixes, suf \in Affixes, c \in {"a", " "}, n \in FillLens}
        \ {<<>>}

ImageLists == {NoneImages, <<>>, <<"logo.png", "pack.jpg">>}

(***************************************************************************)
(* Images.  An image is the list of the steps that produced it: who made   *)
(* it, in which run, and as which version; an edit extends its base image. *)
(***************************************************************************)
Made(s, r, v) == [by |-> s, run |-> r, ver |-> v]
Generated(s, r) == <<Made(s, r, "v1")>>
EditedFrom(base, s, r, v) == Append(base, Made(s, r, v))
\* PIL.Image.open(image_path) of a reference image
Opened(path) == <<Made("file", 0, path)>>

(***************************************************************************)
(* Files.  A file is the list of the images it holds: empty when the file  *)
(* does not exist, one image after a save.                                 *)
(***************************************************************************)
\* a save that opens its target for appending
SaveImageAppending(file, img) == Append(file, img)

\* GeneratedImage.save(location): the file is rewritten
SaveImage(file, img) == <<img>>

\* PIL.Image.open / VertexImage.load_from_file of an existing file
ReadImage(file) == Head(file)

\* a second edit that reuses the local base_image of line 172
SecondBaseImageReused(file, held) == held

\* base_image of the second edit_image call, line 185: loaded afresh
SecondBaseImage(file, held) == ReadImage(file)

(***************************************************************************)
(* Branches of the workflow.                                               *)
(***************************************************************************)
\* an "is not None" test where the code tests truth
HasImagesNotNone(imgs) == imgs # NoneImages

\* if self.images, line 100: None and [] are both false
ImagesGiven(imgs) == imgs # NoneImages /\ imgs # <<>>

\* a generate_images call that never passes the ratio on
GenerationAspectDropped(a) == Omitted

\* the aspect_ratio keyword of generate_images, lines 135-138: passed when
\* self.aspect_ratio is true, that is, not None
GenerationAspect(a) == IF a # NoAspect THEN a ELSE Omitted

\* a retest that edits again from the first critique
RetestStepsWithoutCritique == <<"load2", "edit2", "save_v3">>

\* the steps of the retest branch, lines 183-190, in order
RetestSteps == <<"critique2", "load2", "edit2", "save_v3">>

\* a fix_image that ignores retest
AfterFirstEditIgnoringRetest(qc) == "save_out"

\* if retest, line 182
AfterFirstEdit(qc) == IF qc THEN Head(RetestSteps) ELSE "save_out"

\* a summary that is sliced only when the reply opens with a fence
ConsolidatedSummaryFenceAware(reply) ==
    IF Len(reply) >= Len(FenceOpen) /\ SubSeq(reply, 1, Len(FenceOpen)) = FenceOpen
    THEN PySlice(reply, SliceFrom, SliceTo)
    ELSE reply

\* .text[9:-5], line 105
ConsolidatedSummary(reply) == PySlice(reply, SliceFrom, SliceTo)

\* a fault handler that tries the failed step again
AfterFaultRetry(p) == p

\* nothing catches: the fault leaves execute, and the run is over
AfterFault(p) == "failed"

(***************************************************************************)
(* The state.                                                              *)
(***************************************************************************)
VARIABLES
    \* the fields of each BannerGenerator
    topic, images, aspect_ratio, launch_state,
    text_v0, text_v1, text_v2, text_v3,
    img_response_v1, img_response_v2, img_response_v3,
    \* where each session is in execute(), its argument and its locals
    pc, retest, loaded, image_info, lags, base_image, ret,
    \* the disk: images/temp/temp.jpg and the files of images/output
    tmpFile, outDir,
    \* the caller: executes made, executes it will make, and the values of
    \* QC it passes
    runs, budget, flags,
    \* the text service: what it may answer to a consolidation prompt
    replies,
    \* history of the current run: every call and file operation attempted,
    \* and every read of the temporary file
    log, reads,
    \* history: the image a session last saved to the temporary file, and
    \* whether another session has touched that file since
    ownLast, dirty

vars ==
    <<topic, images, aspect_ratio, launch_state, text_v0, text_v1, text_v2,
      text_v3, img_response_v1, img_response_v2, img_response_v3, pc, retest,
      loaded, image_info, lags, base_image, ret, tmpFile, outDir, runs,
      budget, flags, replies, log, reads, ownLast, dirty>>

args == <<topic, images, aspect_ratio>>
texts == <<text_v0, text_v1, text_v2, text_v3>>
responses == <<img_response_v1, img_response_v2, img_response_v3>>
locals == <<loaded, image_info, lags, base_image>>
disk == <<tmpFile, outDir>>
caller == <<runs, budget, flags, replies>>
writes == <<ownLast, dirty>>

\* the steps of execute(), in the order of the source
Steps ==
    <<"launch", "extract", "load_images", "describe", "consolidate",
      "cleanup", "synth", "generate", "remove_temp", "save_v1", "critique1",
      "load1", "edit1", "save_v2", "critique2", "load2", "edit2", "save_v3",
      "save_out">>
Running == {Steps[i] : i \in 1..Len(Steps)}

\* the step after p in a list of steps, and q after the last
Following(list, p, q) ==
    LET i == CHOOSE j \in 1..Len(list) : list[j] = p
    IN  IF i < Len(list) THEN list[i + 1] ELSE q

\* the library function a step calls
CallOf(p) ==
    CASE p = "launch" -> "launch"
      [] p = "load_images" -> "open"
      [] p \in {"extract", "describe", "consolidate", "cleanup", "synth",
                "critique1", "critique2"} -> "generate_content"
      [] p = "generate" -> "generate_images"
      [] p = "remove_temp" -> "remove"
      [] p \in {"load1", "load2"} -> "load_from_file"
      [] p \in {"edit1", "edit2"} -> "edit_image"
      [] OTHER -> "save"

\* one entry of the history of a run
Ev(step, ok, prompt, imgs, aspect, modes, reply, out) ==
    [step |-> step, call |-> CallOf(step), ok |-> ok, prompt |-> prompt,
     imgs |-> imgs, aspect |-> aspect, modes |-> modes, reply |-> reply,
     out |-> out]

Logged(s, e) == log' = [log EXCEPT ![s] = Append(@, e)]

\* session s has written or removed the temporary file
Touched(s) == dirty' = [t \in Sessions |-> t # s]

(***************************************************************************)
(* Construction: BannerGenerator(CONFIGS=..., topic=..., images=...,       *)
(* aspect_ratio=...), with the defaults of lines 29-44.                    *)
(***************************************************************************)
InitWith(topics, imageLists, aspects, budgets, flagSets, replySets) ==
    /\ topic \in {[A |-> t, B |-> ExampleTopic] : t \in topics}
    /\ images \in {[A |-> i, B |-> NoneImages] : i \in imageLists}
    /\ aspect_ratio \in {[A |-> a, B |-> NoAspect] : a \in aspects}
    /\ budget \in budgets
    /\ flags \in flagSets
    /\ replies \in replySets
    /\ launch_state = [s \in Sessions |-> FALSE]
    /\ text_v0 = [s \in Sessions |-> NoneText]
    /\ text_v1 = [s \in Sessions |-> NoneText]
    /\ text_v2 = [s \in Sessions |-> NoneText]
    /\ text_v3 = [s \in Sessions |-> NoneText]
    /\ img_response_v1 = [s \in Sessions |-> NoImage]
    /\ img_response_v2 = [s \in Sessions |-> NoImage]
    /\ img_response_v3 = [s \in Sessions |-> NoImage]
    /\ pc = [s \in Sessions |-> "idle"]
    /\ retest = [s \in Sessions |-> FALSE]
    /\ loaded = [s \in Sessions |-> <<>>]
    /\ image_info = [s \in Sessions |-> NoneText]
    /\ lags = [s \in Sessions |-> NoneText]
    /\ base_image = [s \in Sessions |-> NoImage]
    /\ ret = [s \in Sessions |-> NoneText]
    /\ tmpFile = <<>>
    /\ outDir = {}
    /\ runs = [s \in Sessions |-> 0]
    /\ log = [s \in Sessions |-> <<>>]
    /\ reads = [s \in Sessions |-> <<>>]
    /\ ownLast = [s \in Sessions |-> NoImage]
    /\ dirty = [s \in Sessions |-> FALSE]

AnyFlag == [s \in Sessions |-> BOOLEAN]
OneFence == {{Fenced(<<"{", "}">>)}}

\* one session, run again and again, with every kind of argument
Init ==
    InitWith(FewTopics, ImageLists, {NoAspect} \cup AspectRatios,
             {[A |-> MaxRuns, B |-> 0]}, {AnyFlag}, {FewReplies})

\* one session, one run, topics of every shape around the filename cap (and
\* one session that is given images)
InitTopics ==
    \/ InitWith(ManyTopics, {NoneImages}, {NoAspect},
                {[A |-> 1, B |-> 0]}, {AnyFlag}, OneFence)
    \/ InitWith({ExampleTopic}, {<<"logo.png">>}, {NoAspect},
                {[A |-> 1, B |-> 0]}, {AnyFlag}, OneFence)

\* one session, one run, consolidation replies of every length
InitReplies ==
    InitWith({ExampleTopic}, {NoneImages, <<"logo.png">>}, {NoAspect},
             {[A |-> 1, B |-> 0]}, {AnyFlag}, {ManyReplies})

\* two sessions on the one temporary file, the second started or not (and
\* one session alone that is given images)
InitTwo ==
    \/ InitWith({ExampleTopic}, {NoneImages}, {NoAspect},
                {[A |-> 1, B |-> b] : b \in 0..1},
                {[A |-> {TRUE}, B |-> {FALSE}]}, OneFence)
    \/ InitWith({ExampleTopic}, {<<"logo.png">>}, {NoAspect},
                {[A |-> 1, B |-> 0]}, {AnyFlag}, OneFence)

(***************************************************************************)
(* execute(QC), lines 202-208, step by step.                               *)
(***************************************************************************)
\* the caller invokes execute(QC=qc): extract_information begins with
\* __launch, which does nothing once launch_state is set
Execute(s, qc) ==
    /\ pc[s] \in {"idle", "done", "failed"}
    /\ runs[s] < budget[s]
    /\ runs' = [runs EXCEPT ![s] = @ + 1]
    /\ retest' = [retest EXCEPT ![s] = qc]
    /\ pc' = [pc EXCEPT ![s] = IF launch_state[s] THEN "extract" ELSE "launch"]
    /\ loaded' = [loaded EXCEPT ![s] = <<>>]
    /\ image_info' = [image_info EXCEPT ![s] = NoneText]
    /\ lags' = [lags EXCEPT ![s] = NoneText]
    /\ base_image' = [base_image EXCEPT ![s] = NoImage]
    /\ ret' = [ret EXCEPT ![s] = NoneText]
    /\ log' = [log EXCEPT ![s] = <<>>]
    /\ reads' = [reads EXCEPT ![s] = <<>>]
    /\ UNCHANGED <<args, launch_state, texts, responses, disk, budget,
                   flags, replies, writes>>

\* __launch, lines 46-55
Launch(s) ==
    /\ pc[s] = "launch"
    /\ launch_state' = [launch_state EXCEPT ![s] = TRUE]
    /\ Logged(s, Ev("launch", TRUE, <<>>, <<>>, Omitted, NoModes, <<>>, NoImage))
    /\ pc' = [pc EXCEPT ![s] = "extract"]
    /\ UNCHANGED <<args, texts, responses, retest, locals, ret, disk, caller,
                   reads, writes>>

\* lines 83-96: the extraction prompt
Extract(s) ==
    /\ pc[s] = "extract"
    /\ launch_state[s]
    /\ \E r \in ExtractReplies :
          /\ text_v0' = [text_v0 EXCEPT ![s] = r]
          /\ Logged(s, Ev("extract", TRUE, ExtractionPrompt(topic[s]), <<>>,
                          Omitted, NoModes, r, NoImage))
    /\ pc' = [pc EXCEPT ![s] =
                IF ImagesGiven(images[s]) THEN "load_images" ELSE "consolidate"]
    /\ UNCHANGED <<args, launch_state, text_v1, text_v2, text_v3, responses,
                   retest, locals, ret, disk, caller, reads, writes>>

\* load_images, lines 57-68: every path of self.images is opened
LoadImages(s) ==
    /\ pc[s] = "load_images"
    /\ LET opened == [i \in 1..Len(images[s]) |-> Opened(images[s][i])]
       IN  /\ loaded' = [loaded EXCEPT ![s] = opened]
           /\ Logged(s, Ev("load_images", TRUE, <<>>, opened, Omitted,
                           NoModes, <<>>, NoImage))
    /\ pc' = [pc EXCEPT ![s] = "describe"]
    /\ UNCHANGED <<args, launch_state, texts, responses, retest, image_info,
                   lags, base_image, ret, disk, caller, reads, writes>>

\* extract_image_information, lines 73-77
Describe(s) ==
    /\ pc[s] = "describe"
    /\ launch_state[s]
    /\ \E r \in DescribeReplies :
          /\ image_info' = [image_info EXCEPT ![s] = r]
          /\ Logged(s, Ev("describe", TRUE, DescribePrompt, loaded[s],
                          Omitted, NoModes, r, NoImage))
    /\ pc' = [pc EXCEPT ![s] = "consolidate"]
    /\ UNCHANGED <<args, launch_state, texts, responses, retest, loaded,
                   lags, base_image, ret, disk, caller, reads, writes>>

\* lines 99-105: the consolidation prompt, and the slice of its reply
Consolidate(s) ==
    /\ pc[s] = "consolidate"
    /\ launch_state[s]
    /\ LET out_text ==
              IF ImagesGiven(images[s])
              THEN WithInsights(ConsolidationPrompt(text_v0[s]), image_info[s])
              ELSE ConsolidationPrompt(text_v0[s])
       IN  \E r \in replies :
              /\ text_v1' = [text_v1 EXCEPT ![s] = ConsolidatedSummary(r)]
              /\ Logged(s, Ev("consolidate", TRUE, out_text, <<>>, Omitted,
                              NoModes, r, NoImage))
    /\ pc' = [pc EXCEPT ![s] = "cleanup"]
    /\ UNCHANGED <<args, launch_state, text_v0, text_v2, text_v3, responses,
                   retest, locals, ret, disk, caller, reads, writes>>

\* lines 108-109: the cleanup prompt
Cleanup(s) ==
    /\ pc[s] = "cleanup"
    /\ launch_state[s]
    /\ \E r \in CleanupReplies :
          /\ text_v2' = [text_v2 EXCEPT ![s] = r]
          /\ Logged(s, Ev("cleanup", TRUE, CleanupPrompt(text_v1[s]), <<>>,
                          Omitted, NoModes, r, NoImage))
    /\ pc' = [pc EXCEPT ![s] = "synth"]
    /\ UNCHANGED <<args, launch_state, text_v0, text_v1, text_v3, responses,
                   retest, locals, ret, disk, caller, reads, writes>>

\* create_text_prompt, lines 113-128
Synthesize(s) ==
    /\ pc[s] = "synth"
    /\ launch_state[s]
    /\ \E r \in SynthesisReplies :
          /\ text_v3' = [text_v3 EXCEPT ![s] = r]
          /\ Logged(s, Ev("synth", TRUE, SynthesisPrompt(text_v2[s]), <<>>,
                          Omitted, NoModes, r, NoImage))
    /\ pc' = [pc EXCEPT ![s] = "generate"]
    /\ UNCHANGED <<args, launch_state, text_v0, text_v1, text_v2, responses,
                   retest, locals, ret, disk, caller, reads, writes>>

\* generate_image, lines 132-138: the request to the image service
Generate(s) ==
    /\ pc[s] = "generate"
    /\ launch_state[s]
    /\ LET img == Generated(s, runs[s])
       IN  /\ img_response_v1' = [img_response_v1 EXCEPT ![s] = img]
           /\ Logged(s, Ev("generate", TRUE, GenerationPrompt(text_v3[s]),
                           <<>>, GenerationAspect(aspect_ratio[s]), NoModes,
                           <<>>, img))
    /\ pc' = [pc EXCEPT ![s] = "remove_temp"]
    /\ UNCHANGED <<args, launch_state, texts, img_response_v2,
                   img_response_v3, retest, locals, ret, disk, caller, reads,
                   writes>>

\* lines 142-143: an existing temporary file is removed
RemoveTemp(s) ==
    /\ pc[s] = "remove_temp"
    /\ IF tmpFile # <<>>
       THEN /\ tmpFile' = <<>>
            /\ Touched(s)
            /\ Logged(s, Ev("remove_temp", TRUE, <<>>, <<>>, Omitted, NoModes,
                            <<>>, NoImage))
       ELSE UNCHANGED <<tmpFile, dirty, log>>
    /\ pc' = [pc EXCEPT ![s] = "save_v1"]
    /\ UNCHANGED <<args, launch_state, texts, responses, retest, locals, ret,
                   outDir, caller, reads, ownLast>>

\* a save of img to the temporary file by session s, at step p
SaveTemp(s, p, img) ==
    /\ tmpFile' = SaveImage(tmpFile, img)
    /\ ownLast' = [ownLast EXCEPT ![s] = img]
    /\ Touched(s)
    /\ Logged(s, Ev(p, TRUE, <<>>, <<>>, Omitted, NoModes, <<>>, img))

\* line 144
SaveV1(s) ==
    /\ pc[s] = "save_v1"
    /\ SaveTemp(s, "save_v1", img_response_v1[s])
    /\ pc' = [pc EXCEPT ![s] = "critique1"]
    /\ UNCHANGED <<args, launch_state, texts, responses, retest, locals, ret,
                   outDir, caller, reads>>

\* one read of the temporary file, as the history keeps it
ReadBy(s, what, img) ==
    reads' = [reads EXCEPT ![s] =
                Append(@, [by |-> what, img |-> img, own |-> ownLast[s],
                           intr |-> dirty[s]])]

\* identify_lags, lines 149-165, called at step p: the temporary file is
\* opened and sent with the rubric; the reply goes into the edit prompt
Critique(s, p, next) ==
    /\ pc[s] = p
    /\ launch_state[s]
    /\ tmpFile # <<>>
    /\ LET img == ReadImage(tmpFile)
       IN  \E r \in CritiqueReplies :
              /\ lags' = [lags EXCEPT ![s] = r]
              /\ Logged(s, Ev(p, TRUE, CritiquePrompt(text_v3[s]), <<img>>,
                              Omitted, NoModes, r, NoImage))
              /\ ReadBy(s, "critique", img)
    /\ pc' = [pc EXCEPT ![s] = next]
    /\ UNCHANGED <<args, launch_state, texts, responses, retest, loaded,
                   image_info, base_image, ret, disk, caller, writes>>

\* the base image of an edit is loaded at step p
Load(s, p, next, img) ==
    /\ pc[s] = p
    /\ tmpFile # <<>>
    /\ base_image' = [base_image EXCEPT ![s] = img]
    /\ Logged(s, Ev(p, TRUE, <<>>, <<img>>, Omitted, NoModes, <<>>, NoImage))
    /\ ReadBy(s, "edit", img)
    /\ pc' = [pc EXCEPT ![s] = next]
    /\ UNCHANGED <<args, launch_state, texts, responses, retest, loaded,
                   image_info, lags, ret, disk, caller, writes>>

\* em.edit_image at step p: the request, and the image that comes back
EditRequest(s, p, prompt, v) ==
    LET img == EditedFrom(base_image[s], s, runs[s], v)
    IN  Logged(s, Ev(p, TRUE, prompt, <<base_image[s]>>, Omitted, EditModes,
                     <<>>, img))

\* line 169: the first critique
Critique1(s) == Critique(s, "critique1", "load1")

\* line 172
Load1(s) == Load(s, "load1", "edit1", ReadImage(tmpFile))

\* lines 173-178
Edit1(s) ==
    /\ pc[s] = "edit1"
    /\ launch_state[s]
    /\ EditRequest(s, "edit1", EditPrompt(lags[s]), "v2")
    /\ img_response_v2' =
          [img_response_v2 EXCEPT ![s] =
              EditedFrom(base_image[s], s, runs[s], "v2")]
    /\ pc' = [pc EXCEPT ![s] = "save_v2"]
    /\ UNCHANGED <<args, launch_state, texts, img_response_v1,
                   img_response_v3, retest, locals, ret, disk, caller, reads,
                   writes>>

\* line 179, and the branch on retest of line 182
SaveV2(s) ==
    /\ pc[s] = "save_v2"
    /\ SaveTemp(s, "save_v2", img_response_v2[s])
    /\ pc' = [pc EXCEPT ![s] = AfterFirstEdit(retest[s])]
    /\ UNCHANGED <<args, launch_state, texts, responses, retest, locals, ret,
                   outDir, caller, reads>>

\* line 183: the second critique
Critique2(s) ==
    Critique(s, "critique2", Following(RetestSteps, "critique2", "save_out"))

\* line 185
Load2(s) ==
    Load(s, "load2", Following(RetestSteps, "load2", "save_out"),
         SecondBaseImage(tmpFile, base_image[s]))

\* lines 184-189
Edit2(s) ==
    /\ pc[s] = "edit2"
    /\ launch_state[s]
    /\ EditRequest(s, "edit2", ReEditPrompt(lags[s]), "v3")
    /\ img_response_v3' =
          [img_response_v3 EXCEPT ![s] =
              EditedFrom(base_image[s], s, runs[s], "v3")]
    /\ pc' = [pc EXCEPT ![s] = Following(RetestSteps, "edit2", "save_out")]
    /\ UNCHANGED <<args, launch_state, texts, img_response_v1,
                   img_response_v2, retest, locals, ret, disk, caller, reads,
                   writes>>

\* line 190
SaveV3(s) ==
    /\ pc[s] = "save_v3"
    /\ SaveTemp(s, "save_v3", img_response_v3[s])
    /\ pc' = [pc EXCEPT ![s] = Following(RetestSteps, "save_v3", "save_out")]
    /\ UNCHANGED <<args, launch_state, texts, responses, retest, locals, ret,
                   outDir, caller, reads>>

\* lines 194-200: img_response_v2 is saved under the output path, and the
\* path is returned
SaveOut(s) ==
    /\ pc[s] = "save_out"
    /\ LET path == OutputPath(topic[s])
           img == img_response_v2[s]
       IN  /\ outDir' = {f \in outDir : f.path # path}
                           \cup {[path |-> path, img |-> img]}
           /\ ret' = [ret EXCEPT ![s] = path]
           /\ Logged(s, Ev("save_out", TRUE, path, <<>>, Omitted, NoModes,
                           <<>>, img))
    /\ pc' = [pc EXCEPT ![s] = "done"]
    /\ UNCHANGED <<args, launch_state, texts, responses, retest, locals,
                   tmpFile, caller, reads, writes>>

\* a call or a file operation raises: the service is down, the reply holds
\* no image, the file is missing.  Nothing in the source catches it.
\* (os.remove is only called on a file that exists.)
Fail(s) ==
    /\ pc[s] \in Running
    /\ pc[s] = "remove_temp" => tmpFile # <<>>
    /\ Logged(s, Ev(pc[s], FALSE, <<>>, <<>>, Omitted, NoModes, <<>>, NoImage))
    /\ pc' = [pc EXCEPT ![s] = AfterFault(pc[s])]
    /\ UNCHANGED <<args, launch_state, texts, responses, retest, locals, ret,
                   disk, caller, reads, writes>>

Next ==
    \E s \in Sessions :
        \/ \E qc \in flags[s] : Execute(s, qc)
        \/ Launch(s)
        \/ Extract(s)
        \/ LoadImages(s)
        \/ Describe(s)
        \/ Consolidate(s)
        \/ Cleanup(s)
        \/ Synthesize(s)
        \/ Generate(s)
        \/ RemoveTemp(s)
        \/ SaveV1(s)
        \/ Critique1(s)
        \/ Load1(s)
        \/ Edit1(s)
        \/ SaveV2(s)
        \/ Critique2(s)
        \/ Load2(s)
        \/ Edit2(s)
        \/ SaveV3(s)
        \/ SaveOut(s)
        \/ Fail(s)

\* one session, run up to MaxRuns times
Spec == Init /\ [][Next]_vars
\* one session, topics around the filename cap
SpecTopics == InitTopics /\ [][Next]_vars
\* one session, consolidation replies of every length
SpecReplies == InitReplies /\ [][Next]_vars
\* two sessions on one temporary file
SpecTwo == InitTwo /\ [][Next]_vars

(***************************************************************************)
(* Reading the history of a run.                                           *)
(***************************************************************************)
Last(q) == q[Len(q)]
IsPrefix(a, b) == Len(a) <= Len(b) /\ a = SubSeq(b, 1, Len(a))
ServiceCalls == {"generate_content", "generate_images", "edit_image"}

\* the requests of session s that a service answered, in order
Answered(s) == SelectSeq(log[s], LAMBDA e : e.ok /\ e.call \in ServiceCalls)

\* the positions in the history of s of the answered requests that P holds of
Where(s, P(_)) ==
    {i \in 1..Len(log[s]) :
        log[s][i].ok /\ log[s][i].call \in ServiceCalls /\ P(log[s][i])}

IsExtraction(e) ==
    e.call = "generate_content" /\ Head(e.prompt) = Head(ExtractionPrompt(<<>>))
IsDescription(e) == e.call = "generate_content" /\ e.prompt = DescribePrompt
IsConsolidation(e) ==
    e.call = "generate_content" /\ Head(e.prompt) = ConsolidationHead
IsCleanup(e) == e.call = "generate_content" /\ Head(e.prompt) = CleanupHead
IsSynthesis(e) ==
    e.call = "generate_content" /\ Head(e.prompt) = Head(SynthesisPrompt(<<>>))
IsGeneration(e) == e.call = "generate_images"
IsCritique(e) ==
    e.call = "generate_content" /\ Head(e.prompt) = Head(CritiquePrompt(<<>>))
IsEdit(e) == e.call = "edit_image"

\* what kind of request e is
KindOf(e) ==
    CASE IsExtraction(e) -> "extraction"
      [] IsDescription(e) -> "description"
      [] IsConsolidation(e) -> "consolidation"
      [] IsCleanup(e) -> "cleanup"
      [] IsSynthesis(e) -> "synthesis"
      [] IsGeneration(e) -> "generation"
      [] IsCritique(e) -> "critique"
      [] IsEdit(e) -> "edit"
      [] OTHER -> "unknown"
Kinds(s) == [i \in 1..Len(Answered(s)) |-> KindOf(Answered(s)[i])]

\* the file of the output directory at path p, as a set of at most one image
OutputAt(p) == {f.img : f \in {g \in outDir : g.path = p}}

(***************************************************************************)
(* C1.  When execute completes, the image saved at the output path is the  *)
(* result of the last repair of the run: the first edit (img_response_v2)  *)
(* without the quality check, the second edit (img_response_v3) with it;   *)
(* and it is the image the temporary file holds at the end of the run.     *)
(***************************************************************************)
C1_OutputIsLastRepair ==
    \A s \in Sessions :
        pc[s] = "done" =>
            LET final == IF retest[s] THEN img_response_v3[s]
                                      ELSE img_response_v2[s]
            IN  /\ OutputAt(ret[s]) = {final}
                /\ tmpFile = <<final>>

(***************************************************************************)
(* C2.  A completed run has made exactly two calls to the edit service     *)
(* when the quality check was asked for and exactly one when it was not,   *)
(* whatever the topic, the images and the aspect ratio; and no run makes   *)
(* more than two.                                                          *)
(***************************************************************************)
EditsMade(s) == Cardinality({i \in 1..Len(log[s]) : log[s][i].call = "edit_image"})

C2_EditCount ==
    \A s \in Sessions :
        /\ EditsMade(s) <= 2
        /\ pc[s] = "done" => EditsMade(s) = IF retest[s] THEN 2 ELSE 1

C2_Witness ==
    /\ pc["A"] = "done"
    /\ retest["A"]
    /\ images["A"] = <<"logo.png", "pack.jpg">>
    /\ aspect_ratio["A"] = "9:16"
    /\ EditsMade("A") = 2

(***************************************************************************)
(* C3.  The requests of a run go out in one linear order: extraction,      *)
(* (description of the images, only if images are given), consolidation,   *)
(* cleanup, synthesis, generation, critique, edit, and, only with the      *)
(* quality check, one more critique and one more edit.  Every edit comes   *)
(* right after one critique of the image the temporary file then holds.    *)
(* Without images, aspect ratio and quality check a completed run has made *)
(* three extraction prompts, one generation, one critique and one edit.    *)
(***************************************************************************)
ExpectedKinds(imgs, qc) ==
    <<"extraction">>
        \o (IF imgs = NoneImages \/ imgs = <<>> THEN <<>> ELSE <<"description">>)
        \o <<"consolidation", "cleanup", "synthesis", "generation",
             "critique", "edit">>
        \o (IF qc THEN <<"critique", "edit">> ELSE <<>>)

\* the image last saved to the temporary file before position k of the history
SavedBefore(s, k) ==
    LET saves == {i \in 1..(k - 1) :
                     /\ log[s][i].ok
                     /\ log[s][i].step \in {"save_v1", "save_v2", "save_v3"}}
    IN  IF saves = {} THEN NoImage
        ELSE log[s][CHOOSE i \in saves : \A j \in saves : j <= i].out

\* the edit at position k follows a critique of the current temporary image
EditFollowsCritique(s, k) ==
    LET before == {i \in 1..(k - 1) :
                      log[s][i].ok /\ log[s][i].call \in ServiceCalls}
    IN  /\ before # {}
        /\ LET c == CHOOSE i \in before : \A j \in before : j <= i
           IN  /\ IsCritique(log[s][c])
               /\ log[s][c].imgs = <<SavedBefore(s, c)>>
               /\ log[s][k].imgs = log[s][c].imgs

CountOf(s, kinds) ==
    Cardinality({i \in 1..Len(Kinds(s)) : Kinds(s)[i] \in kinds})

C3_LinearOrder ==
    \A s \in Sessions :
        /\ IsPrefix(Kinds(s), ExpectedKinds(images[s], retest[s]))
        /\ pc[s] = "done" => Kinds(s) = ExpectedKinds(images[s], retest[s])
        /\ \A k \in Where(s, IsEdit) : EditFollowsCritique(s, k)
        /\ (/\ pc[s] = "done"
            /\ images[s] = NoneImages
            /\ aspect_ratio[s] = NoAspect
            /\ ~retest[s])
           => /\ CountOf(s, {"extraction", "consolidation", "cleanup"}) = 3
              /\ CountOf(s, {"description"}) = 0
              /\ CountOf(s, {"generation"}) = 1
              /\ CountOf(s, {"critique"}) = 1
              /\ CountOf(s, {"edit"}) = 1

C3_Witness ==
    /\ pc["A"] = "done"
    /\ retest["A"]
    /\ images["A"] = <<"logo.png", "pack.jpg">>
    /\ Len(Kinds("A")) = 10

(***************************************************************************)
(* C4.  With a non-empty list of images, extract_information asks for one  *)
(* description of them, after the extraction prompt and before the         *)
(* consolidation prompt, and the consolidation prompt carries the reply.   *)
(* With images None or empty no description is asked for and no image file *)
(* is opened.                                                              *)
(***************************************************************************)
\* prompt ends with the mark of the product insights and then text
EndsWithInsights(prompt, text) ==
    \E i \in 1..Len(prompt) :
        /\ prompt[i] = InsightsMark
        /\ SubSeq(prompt, i + 1, Len(prompt)) = text

C4_ImagesDescribedOnce ==
    \A s \in Sessions :
        LET d == Where(s, IsDescription)
            x == Where(s, IsExtraction)
            c == Where(s, IsConsolidation)
            opens == {i \in 1..Len(log[s]) : log[s][i].call = "open"}
        IN  /\ Cardinality(d) <= 1
            /\ \A i \in d : (\E j \in x : j < i) /\ (\A k \in c : i < k)
            /\ (images[s] # NoneImages /\ Len(images[s]) > 0)
                  => \A k \in c :
                        /\ Cardinality(d) = 1
                        /\ \A i \in d :
                              /\ Len(log[s][i].imgs) = Len(images[s])
                              /\ EndsWithInsights(log[s][k].prompt, log[s][i].reply)
            /\ (images[s] = NoneImages \/ images[s] = <<>>)
                  => /\ d = {}
                     /\ opens = {}
                     /\ \A k \in c : \A i \in 1..Len(log[s][k].prompt) :
                           log[s][k].prompt[i] # InsightsMark

C4_Witness ==
    /\ images["A"] = <<"logo.png", "pack.jpg">>
    /\ Where("A", IsDescription) # {}
    /\ Where("A", IsConsolidation) # {}
    /\ pc["A"] = "cleanup"

(***************************************************************************)
(* C5.  The one image-generation request of a run carries the aspect ratio *)
(* of the session when one of 1:1, 9:16, 16:9, 4:3, 3:4 was supplied, and  *)
(* no aspect ratio when none was; the edit requests never carry one.       *)
(***************************************************************************)
C5_AspectRatioPassed ==
    \A s \in Sessions :
        /\ Cardinality(Where(s, IsGeneration)) <= 1
        /\ \A i \in Where(s, IsGeneration) :
              IF aspect_ratio[s] \in AspectRatios
              THEN log[s][i].aspect = aspect_ratio[s]
              ELSE log[s][i].aspect = Omitted
        /\ \A i \in Where(s, IsEdit) : log[s][i].aspect = Omitted

C5_Witness ==
    /\ pc["A"] = "done"
    /\ aspect_ratio["A"] = "16:9"
    /\ \E i \in Where("A", IsGeneration) : log["A"][i].aspect = "16:9"
    /\ Cardinality(Where("A", IsEdit)) = 2

(***************************************************************************)
(* C6.  The returned path.                                                 *)
(***************************************************************************)
\* the characters of t that are alphanumeric or a space, in order, cut to
\* the first n of them
KeptAndCut(t, n) ==
    LET kept == SelectSeq(t, LAMBDA e : e \in Letters \cup Digits \cup {" "})
    IN  [i \in 1..(IF Len(kept) < n THEN Len(kept) ELSE n) |-> kept[i]]

Underscored(q) == [i \in 1..Len(q) |-> IF q[i] = " " THEN "_" ELSE q[i]]

\* path is images/output/<name>.jpg; this is <name>
NameOf(path) == SubSeq(path, Len(OutputDir) + 2, Len(path) - Len(JpgExt))

WellFormedPath(path) ==
    /\ path # <<>>
    /\ Len(path) >= Len(OutputDir) + 1 + Len(JpgExt)
    /\ SubSeq(path, 1, Len(OutputDir) + 1) = OutputDir \o <<"/">>
    /\ SubSeq(path, Len(path) - Len(JpgExt) + 1, Len(path)) = JpgExt
    /\ \A i \in 1..Len(NameOf(path)) :
          NameOf(path)[i] \in Letters \cup Digits \cup {"_"}
    /\ Len(NameOf(path)) <= 50

(* C6 as claimed.  For every non-empty topic the path execute returns is   *)
(* images/output/<name>.jpg, where <name> is the topic with only its       *)
(* alphanumeric characters and spaces kept, cut to 50 characters, and its  *)
(* spaces replaced by underscores; the path is not empty, ends in .jpg,    *)
(* and <name> holds only alphanumerics and underscores, 50 at most.        *)
C6_PathAsClaimed ==
    \A s \in Sessions :
        (pc[s] = "done" /\ topic[s] # <<>>) =>
            /\ WellFormedPath(ret[s])
            /\ NameOf(ret[s]) = Underscored(KeptAndCut(topic[s], 50))

(* C6 as amended.  The same, except that after the cut to 50 characters    *)
(* the leading and the trailing spaces are removed, and only the spaces    *)
(* that remain are replaced by underscores.                                *)
C6_PathStripped ==
    \A s \in Sessions :
        (pc[s] = "done" /\ topic[s] # <<>>) =>
            /\ WellFormedPath(ret[s])
            /\ LET cut == KeptAndCut(topic[s], 50)
                   solid == {i \in 1..Len(cut) : cut[i] # " "}
               IN  IF solid = {} THEN NameOf(ret[s]) = <<>>
                   ELSE LET lo == CHOOSE i \in solid : \A j \in solid : i <= j
                            hi == CHOOSE i \in solid : \A j \in solid : j <= i
                        IN  NameOf(ret[s]) = Underscored(SubSeq(cut, lo, hi))

\* a topic longer than the cap whose cut ends in a space
C6_Witness ==
    /\ pc["A"] = "done"
    /\ Len(topic["A"]) > 50
    /\ topic["A"][1] = "a"
    /\ topic["A"][50] = " "
    /\ Len(NameOf(ret["A"])) = 1

(***************************************************************************)
(* C7.  A call or a file operation that fails ends the run where it        *)
(* fails: nothing is attempted after it, no step of the run is attempted   *)
(* twice, no image is written under the output path and no path is         *)
(* returned.                                                               *)
(***************************************************************************)
C7_FaultEndsRun ==
    \A s \in Sessions :
        \* only the last thing attempted in a run can have failed
        /\ \A i \in 1..(Len(log[s]) - 1) : log[s][i].ok
        \* nothing is attempted twice
        /\ \A i, j \in 1..Len(log[s]) : log[s][i].step = log[s][j].step => i = j
        /\ (log[s] # <<>> /\ ~Last(log[s]).ok) =>
              /\ pc[s] = "failed"
              /\ ret[s] = NoneText
              /\ \A i \in 1..Len(log[s]) :
                    log[s][i].ok => log[s][i].step # "save_out"
              /\ \A f \in outDir :
                    f.img = <<>> \/ Last(f.img) # Made(s, runs[s], "v2")

\* the run failed at its last step, the save under the output path
C7_Witness ==
    /\ pc["A"] = "failed"
    /\ Last(log["A"]).step = "save_out"
    /\ retest["A"]
    /\ ret["A"] = NoneText

(***************************************************************************)
(* C8.  A critique or an edit of a session reads from the temporary file   *)
(* the image that session last saved there, as long as no other session    *)
(* has written or removed the file in between; so it does whenever one     *)
(* session runs alone.  With two sessions at once a session can read the   *)
(* image of the other (the witness).                                       *)
(***************************************************************************)
C8_ReadsOwnImage ==
    \A s \in Sessions :
        \A i \in 1..Len(reads[s]) :
            /\ ~reads[s][i].intr => reads[s][i].img = reads[s][i].own
            /\ (\A t \in Sessions \ {s} : runs[t] = 0)
                  => reads[s][i].img = reads[s][i].own

\* a session has critiqued or edited an image the other session made
C8_Witness ==
    \E s \in Sessions :
        \E i \in 1..Len(reads[s]) :
            /\ reads[s][i].img # reads[s][i].own
            /\ Last(reads[s][i].img).by \in Sessions \ {s}
            /\ pc[s] = "done"

(***************************************************************************)
(* C9.  The temporary file never holds more than one image, and right      *)
(* after a save it holds the image produced last (the generated image,     *)
(* the first edit or the second): the image of an earlier run or the base  *)
(* of the edit is gone, however often the pipeline is run again.           *)
(***************************************************************************)
\* the image the last answered generation or edit request of s returned
ProducedLast(s) ==
    LET made == Where(s, IsGeneration) \cup Where(s, IsEdit)
    IN  log[s][CHOOSE i \in made : \A j \in made : j <= i].out

C9_TempHoldsOneImage ==
    /\ Len(tmpFile) <= 1
    /\ \A s \in Sessions :
          (/\ log[s] # <<>>
           /\ Last(log[s]).ok
           /\ Last(log[s]).step \in {"save_v1", "save_v2", "save_v3"})
          => tmpFile = <<ProducedLast(s)>>

\* a second run has just saved its generated image over the first run's
C9_Witness ==
    /\ runs["A"] = 2
    /\ pc["A"] = "critique1"
    /\ Last(log["A"]).step = "save_v1"
    /\ \E i \in 1..Len(log["A"]) : log["A"][i].step = "remove_temp"
    /\ tmpFile = <<Generated("A", 2)>>

(***************************************************************************)
(* C10.  text_v1, and the cleanup prompt after it, hold the reply to the   *)
(* consolidation prompt without its first 9 and its last 5 characters,     *)
(* whatever the reply is: a reply of 14 characters or fewer gives the      *)
(* empty string and the run goes on, and a reply without a code fence is   *)
(* cut like any other.                                                     *)
(***************************************************************************)
Without9And5(r, v) ==
    IF Len(r) <= 14 THEN v = <<>>
    ELSE /\ Len(v) = Len(r) - 14
         /\ \A i \in 1..Len(v) : v[i] = r[i + 9]

C10_SummaryIsSlice ==
    \A s \in Sessions :
        /\ \A k \in Where(s, IsConsolidation) :
              Without9And5(log[s][k].reply, text_v1[s])
        /\ \A k \in Where(s, IsConsolidation) : \A c \in Where(s, IsCleanup) :
              /\ Len(log[s][c].prompt) >= 1
              /\ Without9And5(log[s][k].reply, Tail(log[s][c].prompt))

\* a reply with no fence, longer than 14 characters, was cut all the same
C10_Witness ==
    /\ pc["A"] = "done"
    /\ \E k \in Where("A", IsConsolidation) :
          /\ Len(log["A"][k].reply) = 16
          /\ Head(log["A"][k].reply) # "~"
          /\ text_v1["A"] = SubSeq(log["A"][k].reply, 10, 11)
====
